---- MODULE Spec2Model ----
(***************************************************************************)
(* A model of shell.c: parse, find_full_path, execute (with do_builtin and *)
(* is_builtin) and cleanup, together with the part of the platform they    *)
(* act on: the environment, the filesystem, the working directory and the  *)
(* child processes created by fork.                                        *)
(*                                                                         *)
(* A C string is a sequence of one-character strings; argv[i] of the code  *)
(* is argv[i+1] here, because sequences start at 1.                        *)
(***************************************************************************)
EXTENDS Integers, Sequences, FiniteSets, TLC

VARIABLES
    pc,        \* where the shell process is: "idle", "ready", "classify",
               \* "resolve", "fork", "wait", "cleaned", "exited"
    line,      \* the caller's line buffer handed to parse
    cmd,       \* the Command the caller holds
    calls,     \* find_full_path/execute calls made on this Command so far
    done,      \* the call that returned last: "none", "parse",
               \* "find_full_path", "execute", "cleanup"
    ret,       \* the value execute returned last
    found,     \* the value find_full_path returned last
    before,    \* the Command as it was when the last call was entered
    cwdBefore, \* the working directory when the last call was entered
    cwd,       \* the working directory of the shell process
    env,       \* PATH, HOME and the inherited SIGCHLD disposition
    children,  \* pid -> the child process of that pid
    pid,       \* execute's local pid
    status,    \* execute's local status, as waitpid stored it
    reaped,    \* how the child collected by waitpid ended
    trace,     \* the platform calls and outputs of the current call
    heap,      \* the blocks of the free store used for this Command, and
               \* the misuses of them so far
    exitCode   \* <<n>> once the shell process has called exit(n)

vars == <<pc, line, cmd, calls, done, ret, found, before, cwdBefore, cwd,
          env, children, pid, status, reaped, trace, heap, exitCode>>

---------------------------------------------------------------------------
(* Constants of shell.h and of the platform *)

SUCCESS == 0

ERROR == -1

\* The two sizes of shell.h, scaled down so that truncation is reachable.
MAX_ARG_LEN == 6

MAX_LINE_SIZE == 8

EXIT_FAILURE == 1

\* The null pointer, as a char* and as a command*.
NULL == <<"(null)">>

NULLCMD == [argc |-> -1, argv |-> <<>>]

\* The content of a new char[MAX_ARG_LEN] nothing was written to.
UNINIT == <<"(uninit)">>

NoTerm == [kind |-> "none", n |-> 0]

\* A child process: st is "none" (no such process), "forked" (the copy of
\* the shell before execv), "running" (the program execv started), "shell"
\* (the copy of the shell going on after execv failed) or "zombie"; img is
\* its copy of cmd->argv, ran tells whether execv succeeded, term how it
\* ended.
NoChild == [st |-> "none", img |-> <<>>, ran |-> FALSE, term |-> NoTerm]

---------------------------------------------------------------------------
(* Bounds *)

MaxCalls == 2

MaxChildren == 2

MaxExitCode == 2

Pids == 1..MaxChildren

\* The longest program name written by hand into a Command.
MaxNameLen == 4

\* The most pieces (a delimiter, a short word, an overlong word) a line is
\* put together from.
MaxPieces == 4

---------------------------------------------------------------------------
(* Inputs: the lines, the environments, the filesystem *)

SP == <<" ">>

tCd == <<"c", "d">>

tExit == <<"e", "x", "i", "t">>

Lines ==
    { NULL,
      <<>>,
      <<" ", "\t", "\n">>,
      tCd,
      tCd \o SP \o <<"a">>,
      <<"\t">> \o tCd \o SP \o SP \o <<"/", "b", "\n">>,
      tCd \o SP \o <<"z">>,
      tCd \o SP \o <<"a">> \o SP \o <<"b">>,
      tCd \o SP \o <<"a">> \o SP \o <<"b">> \o SP \o <<"c">>,
      tExit,
      tExit \o SP \o <<"a">>,
      <<"p">>,
      SP \o <<"p">> \o SP \o <<"a", "\n">>,
      <<"q">>,
      <<"n">>,
      <<"r", "r", "r", "r", "r">>,
      tCd \o <<"x">>,
      <<"C", "d">>,
      tExit \o <<"s", "s", "s">> }

PathEnvs ==
    { NULL,
      <<>>,
      <<"/", "a", ":", "/", "b">>,
      <<"/", "b", ":", ":", "/", "a">>,
      <<"/", "c", ":", "b">>,
      <<"/", "b", "/", "b", "i", "n", ":", "/", "a">> }

HomeEnvs == { NULL, <<"/", "h">>, <<"/", "z">> }

SigchldDispositions == { "default", "ignore" }

Directories ==
    { <<"/">>, <<"/", "a">>, <<"/", "b">>, <<"/", "h">>,
      <<"/", "a", "/", "q">>, <<"/", "b", "/", "b", "i", "n">> }

RegularFiles ==
    { <<"/", "a", "/", "p">>, <<"/", "b", "/", "p">>, <<"/", "b", "/", "q">>,
      <<"/", "a", "/", "r", "r", "r", "r">>,
      <<"/", "b", "/", "b", "i", "n", "/", "p">> }

Executables ==
    { <<"/", "a", "/", "p">>, <<"/", "b", "/", "p">>,
      <<"/", "b", "/", "b", "i", "n", "/", "p">> }

\* The program names a caller writes by hand into argv[0]: every string of
\* these characters up to MaxNameLen, and the names of other case or length.
NameChars == { "c", "d", "e", "x", "i", "t" }

RECURSIVE StringsUpTo(_, _)
StringsUpTo(chars, k) ==
    IF k = 0
    THEN { <<>> }
    ELSE LET S == StringsUpTo(chars, k - 1)
         IN  S \cup { Append(t, ch) : t \in S, ch \in chars }

Names ==
    StringsUpTo(NameChars, MaxNameLen)
        \cup { <<"C", "d">>, <<"c", "D">>, <<"E", "x", "i", "t">>, tCd \o <<"x">>,
               tExit \o <<"s">>, <<"p">> }

\* The pieces of a line: the three delimiters, two short words and a word of
\* MAX_ARG_LEN characters, one more than a slot holds.
Pieces ==
    { <<" ">>, <<"\t">>, <<"\n">>, <<"a">>, <<"b">>, <<"a", "b", "c", "d", "e", "f">> }

RECURSIVE Concatenations(_, _)
Concatenations(pieces, k) ==
    IF k = 0
    THEN { <<>> }
    ELSE LET S == Concatenations(pieces, k - 1)
         IN  S \cup { t \o piece : t \in S, piece \in pieces }

AnyLines == Concatenations(Pieces, MaxPieces) \cup { NULL }

\* The ways a program ends: exit(n), a signal (SIGKILL), a signal with a
\* core dump (SIGSEGV).
Terms ==
    [kind : {"exited"}, n : 0..MaxExitCode]
        \cup { [kind |-> "signaled", n |-> 9], [kind |-> "dumped", n |-> 11] }

---------------------------------------------------------------------------
(* The C library and the kernel *)

Ev(op, arg) == [op |-> op, arg |-> arg]

Min(S) == CHOOSE x \in S : \A y \in S : x <= y

Take(s, n) == SubSeq(s, 1, IF Len(s) < n THEN Len(s) ELSE n)

\* strtok: skip the delimiters, then take the characters up to the next one.
RECURSIVE SkipDelims(_, _)
SkipDelims(s, delims) ==
    IF s # <<>> /\ Head(s) \in delims THEN SkipDelims(Tail(s), delims) ELSE s

RECURSIVE TakeToken(_, _)
TakeToken(s, delims) ==
    IF s = <<>> \/ Head(s) \in delims
    THEN <<>>
    ELSE <<Head(s)>> \o TakeToken(Tail(s), delims)

\* The tokens successive strtok calls return until it returns NULL.
RECURSIVE Tokens(_, _)
Tokens(s, delims) ==
    LET r == SkipDelims(s, delims)
    IN  IF r = <<>>
        THEN <<>>
        ELSE LET t == TakeToken(r, delims)
             IN  <<t>> \o Tokens(SubSeq(r, Len(t) + 1, Len(r)), delims)

\* The terminator of a C string, and the string a buffer holds: its cells up
\* to the first terminator (all of them when there is none).
NUL == "NUL"

RECURSIVE CStr(_)
CStr(buf) ==
    IF buf = <<>> \/ Head(buf) = NUL THEN <<>> ELSE <<Head(buf)>> \o CStr(Tail(buf))

\* The copy made with the slot's size as the count and the terminator put
\* one cell after the slot.
ArgBuf_TerminatesPastEnd(src, n) ==
    [i \in 1..(n + 1) |-> IF i <= n /\ i <= Len(src) THEN src[i] ELSE NUL]

\* strncpy(dst, src, n - 1); dst[n - 1] = '\0': the cells written, dst[0] to
\* dst[n - 1]. strncpy pads with terminators up to its count.
ArgBuf(src, n) ==
    [i \in 1..n |-> IF i < n /\ i <= Len(src) THEN src[i] ELSE NUL]

\* strncpy(dst, src, n - 1); dst[n - 1] = '\0': the string dst then holds.
strncpy(src, n) == CStr(ArgBuf(src, n))

\* The buffer strtok leaves behind once it has returned NULL: the delimiter
\* that ended each token is overwritten by a terminator.
StrtokBuf(s, delims) ==
    [i \in 1..Len(s) |->
        IF i > 1 /\ s[i] \in delims /\ s[i - 1] \notin delims THEN NUL ELSE s[i]]
        \o <<NUL>>

\* snprintf(buf, size, "%s/%s", dir, name): the string buf then holds.
snprintf(dir, name, size) == Take(dir \o <<"/">> \o name, size - 1)

\* Path lookup of the kernel: a relative path starts at the working
\* directory, and repeated slashes count as one.
RECURSIVE Collapse(_)
Collapse(p) ==
    IF Len(p) < 2
    THEN p
    ELSE IF p[1] = "/" /\ p[2] = "/"
         THEN Collapse(Tail(p))
         ELSE <<p[1]>> \o Collapse(Tail(p))

Lookup(p, wd) ==
    IF p = <<>>
    THEN <<>>
    ELSE IF Head(p) = "/" THEN Collapse(p) ELSE Collapse(wd \o <<"/">> \o p)

\* stat(path, &buffer) == 0 && S_ISREG(buffer.st_mode)
StatIsReg(p, wd) == Lookup(p, wd) \in RegularFiles

\* chdir(path): 0 and the new working directory, or -1 and the old one.
\* A null path fails (EFAULT).
chdir(p, wd) ==
    IF p # NULL /\ Lookup(p, wd) \in Directories
    THEN [rv |-> 0, cwd |-> Lookup(p, wd)]
    ELSE [rv |-> -1, cwd |-> wd]

\* The status word waitpid stores, and the macros that read it.
EncodeStatus(term) ==
    CASE term.kind = "exited" -> (term.n % 256) * 256
      [] term.kind = "signaled" -> term.n
      [] term.kind = "dumped" -> term.n + 128

WIFEXITED(s) == s % 128 = 0

WEXITSTATUS(s) == (s \div 256) % 256

---------------------------------------------------------------------------
(* The free store: new, delete, and the reads and writes of its blocks *)

\* A block is named by what the code keeps in it: <<"line", 0>> (the
\* caller's buffer), <<"line_copy", 0>>, <<"path_copy", 0>>, <<"cmd", 0>>,
\* <<"argv", 0>>, <<"arg", i>> for argv[i].
Mem(op, what, cap, data) == [op |-> op, what |-> what, cap |-> cap, data |-> data]

New(what, cap) == Mem("new", what, cap, <<>>)

Delete(what) == Mem("delete", what, 0, <<>>)

Read(what) == Mem("read", what, 0, <<>>)

Write(what, data) == Mem("write", what, 0, data)

EmptyHeap == [blocks |-> <<>>, err |-> {}]

\* The block a name refers to: the one allocated last under that name.
Latest(blocks, what) ==
    LET I == { i \in 1..Len(blocks) : blocks[i].what = what }
    IN  IF I = {} THEN 0 ELSE CHOOSE i \in I : \A j \in I : j <= i

\* One operation on the free store; what must not happen is recorded in err.
MemStep(h, m) ==
    LET i == Latest(h.blocks, m.what)
        usable == i # 0 /\ h.blocks[i].st \in {"live", "caller"}
    IN  CASE m.op = "new" ->
                [h EXCEPT !.blocks = Append(@,
                    [what |-> m.what, cap |-> m.cap, st |-> "live", data |-> <<>>])]
          [] m.op = "delete" ->
                IF i # 0 /\ h.blocks[i].st = "live"
                THEN [h EXCEPT !.blocks[i].st = "freed"]
                ELSE [h EXCEPT !.err = @ \cup {"delete of a block not allocated"}]
          [] m.op = "read" ->
                IF usable
                THEN h
                ELSE [h EXCEPT !.err = @ \cup {"read of a released block"}]
          [] m.op = "write" ->
                IF ~usable
                THEN [h EXCEPT !.err = @ \cup {"write to a released block"}]
                ELSE IF Len(m.data) > h.blocks[i].cap
                THEN [h EXCEPT !.blocks[i].data = m.data,
                               !.err = @ \cup {"write past the end of a block"}]
                ELSE [h EXCEPT !.blocks[i].data = m.data]

\* The operations of a sequence one after the other, each on the store the
\* ones before it left (store and sequence taken as values, hv and msv).
RECURSIVE ApplyMem(_, _)
ApplyMem(h, ms) ==
    IF ms = <<>>
    THEN h
    ELSE CHOOSE r \in { ApplyMem(MemStep(hv, Head(msv)), Tail(msv)) :
                           hv \in {h}, msv \in {ms} } : TRUE

\* The caller's line buffer, which parse is handed.
CallerLine(l) ==
    IF l = NULL
    THEN EmptyHeap
    ELSE [blocks |-> <<[what |-> <<"line", 0>>, cap |-> Len(l) + 1,
                        st |-> "caller", data |-> l \o <<NUL>>]>>,
          err |-> {}]

---------------------------------------------------------------------------
(* shell.c *)

\* create_command that leaves the slot after the last argument unset.
create_command_NoSentinel(argc) ==
    [argc |-> argc, argv |-> [i \in 1..(argc + 1) |-> UNINIT]]

\* command* create_command(int argc): argc fresh slots and the NULL that
\* ends argv.
create_command(argc) ==
    [argc |-> argc,
     argv |-> [i \in 1..(argc + 1) |-> IF i <= argc THEN UNINIT ELSE NULL]]

\* parse giving every Command at least one slot.
parse_AtLeastOneSlot(l) ==
    IF l = NULL
    THEN NULLCMD
    ELSE LET toks == Tokens(l, {" ", "\t", "\n"})
             c == create_command(IF toks = <<>> THEN 1 ELSE Len(toks))
         IN  [c EXCEPT !.argv =
                 [i \in 1..(c.argc + 1) |->
                     IF i <= Len(toks)
                     THEN strncpy(toks[i], MAX_ARG_LEN)
                     ELSE c.argv[i]]]

\* parse splitting at spaces only.
parse_SplitsAtSpacesOnly(l) ==
    IF l = NULL
    THEN NULLCMD
    ELSE LET toks == Tokens(l, {" "})
             c == create_command(Len(toks))
         IN  [c EXCEPT !.argv =
                 [i \in 1..(Len(toks) + 1) |->
                     IF i <= Len(toks)
                     THEN strncpy(toks[i], MAX_ARG_LEN)
                     ELSE c.argv[i]]]

\* command* parse(char* line): a counting pass and a copying pass over a
\* copy of the line.
parse(l) ==
    IF l = NULL
    THEN NULLCMD
    ELSE LET argc == Len(Tokens(l, {" ", "\t", "\n"}))
             c == create_command(argc)
             toks == Tokens(l, {" ", "\t", "\n"})
         IN  [c EXCEPT !.argv =
                 [i \in 1..(argc + 1) |->
                     IF i <= argc /\ i <= Len(toks)
                     THEN strncpy(toks[i], MAX_ARG_LEN)
                     ELSE c.argv[i]]]

\* parse running its tokenization on the caller's line, without a copy.
parse_mem_TokenizesLine(l) ==
    IF l = NULL
    THEN <<>>
    ELSE LET delims == {" ", "\t", "\n"}
             toks == Tokens(l, delims)
             argc == Len(toks)
         IN  <<Write(<<"line", 0>>, StrtokBuf(l, delims)),
               New(<<"cmd", 0>>, 1),
               New(<<"argv", 0>>, argc + 1)>>
             \o [i \in 1..argc |-> New(<<"arg", i - 1>>, MAX_ARG_LEN)]
             \o [i \in 1..argc |->
                    Write(<<"arg", i - 1>>, ArgBuf(toks[i], MAX_ARG_LEN))]

\* What parse does to the free store and to the buffers, in the order of the
\* code: the copy of the line and its two tokenizations, create_command,
\* the copy of each token into its slot, the release of the copy.
parse_mem(l) ==
    IF l = NULL
    THEN <<>>
    ELSE LET delims == {" ", "\t", "\n"}
             toks == Tokens(l, delims)
             argc == Len(toks)
         IN  <<New(<<"line_copy", 0>>, Len(l) + 1),
               Read(<<"line", 0>>),
               Write(<<"line_copy", 0>>, l \o <<NUL>>),
               Write(<<"line_copy", 0>>, StrtokBuf(l, delims)),
               New(<<"cmd", 0>>, 1),
               New(<<"argv", 0>>, argc + 1)>>
             \o [i \in 1..argc |-> New(<<"arg", i - 1>>, MAX_ARG_LEN)]
             \o <<Write(<<"argv", 0>>, [i \in 1..(argc + 1) |-> NUL]),
                  Read(<<"line", 0>>),
                  Write(<<"line_copy", 0>>, l \o <<NUL>>),
                  Write(<<"line_copy", 0>>, StrtokBuf(l, delims))>>
             \o [i \in 1..argc |->
                    Write(<<"arg", i - 1>>, ArgBuf(toks[i], MAX_ARG_LEN))]
             \o <<Delete(<<"line_copy", 0>>)>>

\* The loop of find_full_path over the directories of PATH: the first
\* full_path that is a regular file (NULL when there is none) and the stat
\* calls made. full_path and the directories still to try are the values of
\* one pass of the loop.
RECURSIVE SearchPath(_, _, _)
SearchPath(dirs, arg0, wd) ==
    IF dirs = <<>>
    THEN [hit |-> NULL, ev |-> <<>>]
    ELSE CHOOSE res \in
           { IF StatIsReg(full_path, wd)
             THEN [hit |-> full_path, ev |-> <<Ev("stat", full_path)>>]
             ELSE LET r == SearchPath(rest, arg0, wd)
                  IN  [hit |-> r.hit, ev |-> <<Ev("stat", full_path)>> \o r.ev] :
                 full_path \in { snprintf(Head(dirs), arg0, MAX_LINE_SIZE) },
                 rest \in { Tail(dirs) } } : TRUE

\* find_full_path with argument 0 replaced before a match is known.
find_full_path_RewritesOnMiss(c, path_env, wd) ==
    IF c = NULLCMD \/ c.argv[1] = NULL
    THEN [ok |-> FALSE, cmd |-> c, ev |-> <<>>]
    ELSE IF path_env = NULL
    THEN [ok |-> FALSE, cmd |-> c, ev |-> <<Ev("perror: getenv failed", <<>>)>>]
    ELSE LET r == SearchPath(Tokens(path_env, {":"}), c.argv[1], wd)
         IN  IF r.hit # NULL
             THEN [ok |-> TRUE, cmd |-> [c EXCEPT !.argv[1] = r.hit], ev |-> r.ev]
             ELSE [ok |-> FALSE,
                   cmd |-> [c EXCEPT !.argv[1] = snprintf(<<>>, c.argv[1], MAX_LINE_SIZE)],
                   ev |-> r.ev]

\* bool find_full_path(command* cmd): the value returned, the Command
\* afterwards, and the calls made.
find_full_path(c, path_env, wd) ==
    IF c = NULLCMD \/ c.argv[1] = NULL
    THEN [ok |-> FALSE, cmd |-> c, ev |-> <<>>]
    ELSE IF path_env = NULL
    THEN [ok |-> FALSE, cmd |-> c, ev |-> <<Ev("perror: getenv failed", <<>>)>>]
    ELSE LET r == SearchPath(Tokens(path_env, {":"}), c.argv[1], wd)
         IN  IF r.hit # NULL
             THEN [ok |-> TRUE, cmd |-> [c EXCEPT !.argv[1] = r.hit], ev |-> r.ev]
             ELSE [ok |-> FALSE, cmd |-> c, ev |-> r.ev]

\* find_full_path that stores the new argument 0 without releasing the old.
find_full_path_mem_KeepsOldArg0(c, path_env, wd) ==
    IF c = NULLCMD \/ c.argv[1] = NULL \/ path_env = NULL
    THEN <<>>
    ELSE LET r == SearchPath(Tokens(path_env, {":"}), c.argv[1], wd)
         IN  <<New(<<"path_copy", 0>>, Len(path_env) + 1),
               Write(<<"path_copy", 0>>, StrtokBuf(path_env, {":"}))>>
             \o (IF r.hit # NULL
                 THEN <<New(<<"arg", 0>>, Len(r.hit) + 1),
                        Write(<<"arg", 0>>, r.hit \o <<NUL>>),
                        Delete(<<"path_copy", 0>>)>>
                 ELSE <<Delete(<<"path_copy", 0>>)>>)

\* What find_full_path does to the free store: the copy of PATH, the reads
\* of each round of the loop, the replacement of argv[0] on a match, and
\* the release of the copy on both ways out.
find_full_path_mem(c, path_env, wd) ==
    IF c = NULLCMD
    THEN <<>>
    ELSE IF c.argv[1] = NULL
    THEN <<Read(<<"cmd", 0>>), Read(<<"argv", 0>>)>>
    ELSE IF path_env = NULL
    THEN <<Read(<<"cmd", 0>>), Read(<<"argv", 0>>)>>
    ELSE LET r == SearchPath(Tokens(path_env, {":"}), c.argv[1], wd)
         IN  <<Read(<<"cmd", 0>>), Read(<<"argv", 0>>),
               New(<<"path_copy", 0>>, Len(path_env) + 1),
               Write(<<"path_copy", 0>>, path_env \o <<NUL>>),
               Write(<<"path_copy", 0>>, StrtokBuf(path_env, {":"}))>>
             \o [i \in 1..(2 * Len(r.ev)) |->
                    IF i % 2 = 1 THEN Read(<<"path_copy", 0>>) ELSE Read(<<"arg", 0>>)]
             \o (IF r.hit # NULL
                 THEN <<Delete(<<"arg", 0>>),
                        New(<<"arg", 0>>, Len(r.hit) + 1),
                        Write(<<"arg", 0>>, r.hit \o <<NUL>>),
                        Delete(<<"path_copy", 0>>)>>
                 ELSE <<Delete(<<"path_copy", 0>>)>>)

\* void cleanup(command* cmd): nothing for NULL; otherwise each argv[i], then
\* argv, then the struct.
cleanup_mem(c) ==
    IF c = NULLCMD
    THEN <<>>
    ELSE <<Read(<<"cmd", 0>>), Read(<<"argv", 0>>)>>
         \o [i \in 1..c.argc |-> Delete(<<"arg", i - 1>>)]
         \o <<Delete(<<"argv", 0>>), Delete(<<"cmd", 0>>)>>

\* The validity check without its second half.
ValidCommand_NoArg0Check(c) == c # NULLCMD

\* The check execute starts with: cmd == NULL || cmd->argv[0] == NULL.
ValidCommand(c) == ~(c = NULLCMD \/ c.argv[1] = NULL)

\* is_builtin comparing only as many characters as the builtin's name has.
is_builtin_Prefix(c) ==
    Take(c.argv[1], Len(tCd)) = tCd \/ Take(c.argv[1], Len(tExit)) = tExit

\* is_builtin that knows cd only.
is_builtin_CdOnly(c) == c.argv[1] = tCd

\* bool is_builtin(command* cmd)
is_builtin(c) == c.argv[1] = tCd \/ c.argv[1] = tExit

\* do_builtin returning chdir(...) != 0 for cd.
do_builtin_ReturnsFlag(c, home, wd) ==
    IF c.argv[1] = tExit
    THEN [exits |-> TRUE, rv |-> SUCCESS, cwd |-> wd, ev |-> <<Ev("exit", <<>>)>>]
    ELSE IF c.argc = 1
    THEN [exits |-> FALSE, rv |-> IF chdir(home, wd).rv # 0 THEN 1 ELSE 0,
          cwd |-> chdir(home, wd).cwd, ev |-> <<Ev("chdir", home)>>]
    ELSE IF c.argc = 2
    THEN [exits |-> FALSE, rv |-> IF chdir(c.argv[2], wd).rv # 0 THEN 1 ELSE 0,
          cwd |-> chdir(c.argv[2], wd).cwd, ev |-> <<Ev("chdir", c.argv[2])>>]
    ELSE [exits |-> FALSE, rv |-> ERROR, cwd |-> wd,
          ev |-> <<Ev("fprintf stderr: cd: Too many arguments", <<>>)>>]

\* do_builtin taking the first extra argument of cd whatever follows it.
do_builtin_IgnoresExtraArgs(c, home, wd) ==
    IF c.argv[1] = tExit
    THEN [exits |-> TRUE, rv |-> SUCCESS, cwd |-> wd, ev |-> <<Ev("exit", <<>>)>>]
    ELSE IF c.argc = 1
    THEN [exits |-> FALSE, rv |-> chdir(home, wd).rv, cwd |-> chdir(home, wd).cwd,
          ev |-> <<Ev("chdir", home)>>]
    ELSE [exits |-> FALSE, rv |-> chdir(c.argv[2], wd).rv,
          cwd |-> chdir(c.argv[2], wd).cwd, ev |-> <<Ev("chdir", c.argv[2])>>]

\* do_builtin with an exit that refuses extra arguments.
do_builtin_ExitRejectsArgs(c, home, wd) ==
    IF c.argv[1] = tExit /\ c.argc = 1
    THEN [exits |-> TRUE, rv |-> SUCCESS, cwd |-> wd, ev |-> <<Ev("exit", <<>>)>>]
    ELSE IF c.argv[1] = tExit
    THEN [exits |-> FALSE, rv |-> ERROR, cwd |-> wd,
          ev |-> <<Ev("fprintf stderr: exit: Too many arguments", <<>>)>>]
    ELSE IF c.argc = 1
    THEN [exits |-> FALSE, rv |-> chdir(home, wd).rv, cwd |-> chdir(home, wd).cwd,
          ev |-> <<Ev("chdir", home)>>]
    ELSE IF c.argc = 2
    THEN [exits |-> FALSE, rv |-> chdir(c.argv[2], wd).rv,
          cwd |-> chdir(c.argv[2], wd).cwd, ev |-> <<Ev("chdir", c.argv[2])>>]
    ELSE [exits |-> FALSE, rv |-> ERROR, cwd |-> wd,
          ev |-> <<Ev("fprintf stderr: cd: Too many arguments", <<>>)>>]

\* do_builtin with cd going to the root directory when HOME is unset.
do_builtin_DefaultsHome(c, home, wd) ==
    IF c.argv[1] = tExit
    THEN [exits |-> TRUE, rv |-> SUCCESS, cwd |-> wd, ev |-> <<Ev("exit", <<>>)>>]
    ELSE IF c.argc = 1
    THEN LET h == IF home = NULL THEN <<"/">> ELSE home
         IN  [exits |-> FALSE, rv |-> chdir(h, wd).rv, cwd |-> chdir(h, wd).cwd,
              ev |-> <<Ev("chdir", h)>>]
    ELSE IF c.argc = 2
    THEN [exits |-> FALSE, rv |-> chdir(c.argv[2], wd).rv,
          cwd |-> chdir(c.argv[2], wd).cwd, ev |-> <<Ev("chdir", c.argv[2])>>]
    ELSE [exits |-> FALSE, rv |-> ERROR, cwd |-> wd,
          ev |-> <<Ev("fprintf stderr: cd: Too many arguments", <<>>)>>]

\* do_builtin that ends the shell when chdir fails.
do_builtin_CdFailureIsFatal(c, home, wd) ==
    LET dir == IF c.argc = 1 THEN home ELSE c.argv[2]
    IN  IF c.argv[1] = tExit
        THEN [exits |-> TRUE, rv |-> SUCCESS, cwd |-> wd, ev |-> <<Ev("exit", <<>>)>>]
        ELSE IF c.argc > 2
        THEN [exits |-> FALSE, rv |-> ERROR, cwd |-> wd,
              ev |-> <<Ev("fprintf stderr: cd: Too many arguments", <<>>)>>]
        ELSE IF chdir(dir, wd).rv = ERROR
        THEN [exits |-> TRUE, rv |-> EXIT_FAILURE, cwd |-> wd,
              ev |-> <<Ev("chdir", dir), Ev("exit", <<>>)>>]
        ELSE [exits |-> FALSE, rv |-> SUCCESS, cwd |-> chdir(dir, wd).cwd,
              ev |-> <<Ev("chdir", dir)>>]

\* int do_builtin(command* cmd): whether the process exits, the value
\* returned otherwise, the working directory afterwards, the calls made.
do_builtin(c, home, wd) ==
    IF c.argv[1] = tExit
    THEN [exits |-> TRUE, rv |-> SUCCESS, cwd |-> wd, ev |-> <<Ev("exit", <<>>)>>]
    ELSE IF c.argc = 1
    THEN [exits |-> FALSE, rv |-> chdir(home, wd).rv, cwd |-> chdir(home, wd).cwd,
          ev |-> <<Ev("chdir", home)>>]
    ELSE IF c.argc = 2
    THEN [exits |-> FALSE, rv |-> chdir(c.argv[2], wd).rv,
          cwd |-> chdir(c.argv[2], wd).cwd, ev |-> <<Ev("chdir", c.argv[2])>>]
    ELSE [exits |-> FALSE, rv |-> ERROR, cwd |-> wd,
          ev |-> <<Ev("fprintf stderr: cd: Too many arguments", <<>>)>>]

\* The reading of the status without WIFEXITED.
StatusToResult_NoWIFEXITED(s) ==
    IF WEXITSTATUS(s) = 0 THEN SUCCESS ELSE ERROR

\* What execute returns for the status waitpid stored.
StatusToResult(s) ==
    IF WIFEXITED(s) /\ WEXITSTATUS(s) = 0 THEN SUCCESS ELSE ERROR

\* How a child process ends: a zombie until waited for, or nothing at all
\* when SIGCHLD is ignored.
Terminated(c, term) ==
    IF env.sigchld = "ignore"
    THEN NoChild
    ELSE [c EXCEPT !.st = "zombie", !.term = term]

\* The child after execv returned, without the exit.
AfterExecFailure_NoExit(c) == [c EXCEPT !.st = "shell"]

\* The child after execv returned: perror, then exit(EXIT_FAILURE).
AfterExecFailure(c) == Terminated(c, [kind |-> "exited", n |-> EXIT_FAILURE])

\* waitpid that does not block.
WaitpidReturns_NoHang(c) == TRUE

\* waitpid(pid, &status, 0) returns: the child is a zombie (its pid is
\* returned), or there is no such child (-1, ECHILD). It blocks otherwise.
WaitpidReturns(c) == c.st \in {"zombie", "none"}

---------------------------------------------------------------------------
(* The state machine *)

Init ==
    /\ pc = "idle"
    /\ line = NULL
    /\ cmd = NULLCMD
    /\ calls = 0
    /\ done = "none"
    /\ ret = SUCCESS
    /\ found = FALSE
    /\ before = NULLCMD
    /\ cwdBefore = <<"/">>
    /\ cwd = <<"/">>
    /\ env \in [PATH : PathEnvs, HOME : HomeEnvs, sigchld : SigchldDispositions]
    /\ children = [p \in Pids |-> NoChild]
    /\ pid = 0
    /\ status = 0
    /\ reaped = NoTerm
    /\ trace = <<>>
    /\ heap = EmptyHeap
    /\ exitCode = <<>>

\* The caller has a line out of L in its buffer and parses it.
ParseStep(L) ==
    /\ pc = "idle"
    /\ \E l \in L :
        /\ line' = l
        /\ cmd' = parse(l)
        /\ heap' = ApplyMem(CallerLine(l), parse_mem(l))
    /\ pc' = "ready"
    /\ calls' = 0
    /\ done' = "parse"
    /\ before' = NULLCMD
    /\ trace' = <<>>
    /\ UNCHANGED <<ret, found, cwdBefore, cwd, env, children, pid, status, reaped,
                   exitCode>>

\* The caller reads a line and parses it.
CallParse == ParseStep(Lines)

\* The caller calls find_full_path itself.
CallFindFullPath ==
    /\ pc = "ready"
    /\ calls < MaxCalls
    /\ LET r == find_full_path(cmd, env.PATH, cwd)
       IN  /\ cmd' = r.cmd
           /\ found' = r.ok
           /\ trace' = r.ev
    /\ heap' = ApplyMem(heap, find_full_path_mem(cmd, env.PATH, cwd))
    /\ before' = cmd
    /\ cwdBefore' = cwd
    /\ calls' = calls + 1
    /\ done' = "find_full_path"
    /\ UNCHANGED <<pc, line, ret, cwd, env, children, pid, status, reaped, exitCode>>

\* execute, from its entry to the end of the validity check.
ExecuteValidate ==
    /\ pc = "ready"
    /\ calls < MaxCalls
    /\ before' = cmd
    /\ cwdBefore' = cwd
    /\ calls' = calls + 1
    /\ trace' = <<>>
    /\ pid' = 0
    /\ status' = 0
    /\ reaped' = NoTerm
    /\ heap' = IF cmd = NULLCMD
               THEN heap
               ELSE ApplyMem(heap, <<Read(<<"cmd", 0>>), Read(<<"argv", 0>>)>>)
    /\ IF ValidCommand(cmd)
       THEN /\ pc' = "classify"
            /\ done' = "none"
            /\ ret' = ret
       ELSE /\ pc' = "ready"
            /\ done' = "execute"
            /\ ret' = ERROR
    /\ UNCHANGED <<line, cmd, found, cwd, env, children, exitCode>>

\* execute: the command is a builtin and do_builtin runs it. exit ends the
\* shell process there and then.
ExecuteBuiltin ==
    /\ pc = "classify"
    /\ is_builtin(cmd)
    /\ LET r == do_builtin(cmd, env.HOME, cwd)
       IN  /\ trace' = trace \o <<Ev("is_builtin", <<>>)>> \o r.ev
           /\ cwd' = r.cwd
           /\ IF r.exits
              THEN /\ pc' = "exited"
                   /\ exitCode' = <<r.rv>>
                   /\ UNCHANGED <<done, ret>>
              ELSE /\ pc' = "ready"
                   /\ done' = "execute"
                   /\ ret' = r.rv
                   /\ UNCHANGED exitCode
    /\ heap' = ApplyMem(heap,
                  <<Read(<<"arg", 0>>)>>
                  \o (IF cmd.argv[1] = tCd /\ cmd.argc = 2
                      THEN <<Read(<<"arg", 1>>)>>
                      ELSE <<>>))
    /\ UNCHANGED <<line, cmd, calls, found, before, cwdBefore, env, children,
                   pid, status, reaped>>

\* execute: the command is not a builtin.
ExecuteNotBuiltin ==
    /\ pc = "classify"
    /\ ~is_builtin(cmd)
    /\ pc' = "resolve"
    /\ trace' = trace \o <<Ev("is_builtin", <<>>)>>
    /\ heap' = ApplyMem(heap, <<Read(<<"arg", 0>>)>>)
    /\ UNCHANGED <<line, cmd, calls, done, ret, found, before, cwdBefore, cwd,
                   env, children, pid, status, reaped, exitCode>>

\* execute: find_full_path, and the message when it fails.
ExecuteResolve ==
    /\ pc = "resolve"
    /\ LET r == find_full_path(cmd, env.PATH, cwd)
       IN  /\ cmd' = r.cmd
           /\ found' = r.ok
           /\ IF r.ok
              THEN /\ trace' = trace \o <<Ev("find_full_path", <<>>)>> \o r.ev
                   /\ heap' = ApplyMem(heap, find_full_path_mem(cmd, env.PATH, cwd))
                   /\ pc' = "fork"
                   /\ UNCHANGED <<done, ret>>
              ELSE /\ trace' = trace \o <<Ev("find_full_path", <<>>)>> \o r.ev
                                 \o <<Ev("printf: Command %s not found!", r.cmd.argv[1])>>
                   /\ heap' = ApplyMem(heap,
                                 find_full_path_mem(cmd, env.PATH, cwd)
                                 \o <<Read(<<"arg", 0>>)>>)
                   /\ pc' = "ready"
                   /\ done' = "execute"
                   /\ ret' = ERROR
    /\ UNCHANGED <<line, calls, before, cwdBefore, cwd, env, children, pid,
                   status, reaped, exitCode>>

\* execute: fork. It fails when the kernel says so, and always when no
\* process can be added.
ExecuteFork ==
    /\ pc = "fork"
    /\ \/ /\ trace' = trace \o <<Ev("perror: fork failed", <<>>)>>
          /\ pc' = "ready"
          /\ done' = "execute"
          /\ ret' = ERROR
          /\ UNCHANGED <<children, pid>>
       \/ /\ \E p \in Pids : children[p].st = "none"
          /\ LET p == Min({q \in Pids : children[q].st = "none"})
             IN  /\ children' = [children EXCEPT ![p] =
                        [st |-> "forked", img |-> cmd.argv, ran |-> FALSE,
                         term |-> NoTerm]]
                 /\ pid' = p
          /\ trace' = trace \o <<Ev("fork", <<>>)>>
          /\ pc' = "wait"
          /\ UNCHANGED <<done, ret>>
    /\ UNCHANGED <<line, cmd, calls, found, before, cwdBefore, cwd, env, status,
                   reaped, heap, exitCode>>

\* The child: execv(cmd->argv[0], cmd->argv), and what follows its failure.
ChildExec(p) ==
    /\ children[p].st = "forked"
    /\ \/ /\ Lookup(children[p].img[1], cwd) \in Executables
          /\ children' = [children EXCEPT ![p].st = "running", ![p].ran = TRUE]
       \/ children' = [children EXCEPT ![p] = AfterExecFailure(children[p])]
    /\ UNCHANGED <<pc, line, cmd, calls, done, ret, found, before, cwdBefore,
                   cwd, env, pid, status, reaped, trace, heap, exitCode>>

\* The program the child became ends.
ChildTerminate(p) ==
    /\ children[p].st = "running"
    /\ \E t \in Terms :
        children' = [children EXCEPT ![p] = Terminated(children[p], t)]
    /\ UNCHANGED <<pc, line, cmd, calls, done, ret, found, before, cwdBefore,
                   cwd, env, pid, status, reaped, trace, heap, exitCode>>

\* execute in the parent: waitpid and the reading of the status.
ExecuteWait ==
    /\ pc = "wait"
    /\ WaitpidReturns(children[pid])
    /\ IF children[pid].st = "zombie"
       THEN /\ status' = EncodeStatus(children[pid].term)
            /\ reaped' = children[pid].term
            /\ children' = [children EXCEPT ![pid] = NoChild]
            /\ trace' = trace \o <<Ev("waitpid", <<>>)>>
            /\ ret' = StatusToResult(status')
       ELSE /\ trace' = trace \o <<Ev("perror: waitpid failed", <<>>)>>
            /\ ret' = ERROR
            /\ UNCHANGED <<status, reaped, children>>
    /\ pc' = "ready"
    /\ done' = "execute"
    /\ UNCHANGED <<line, cmd, calls, found, before, cwdBefore, cwd, env, pid,
                   heap, exitCode>>

\* The caller releases the Command: cleanup(cmd).
CallCleanup ==
    /\ pc = "ready"
    /\ pc' = "cleaned"
    /\ heap' = ApplyMem(heap, cleanup_mem(cmd))
    /\ before' = cmd
    /\ cmd' = NULLCMD
    /\ line' = NULL
    /\ calls' = 0
    /\ done' = "cleanup"
    /\ ret' = SUCCESS
    /\ found' = FALSE
    /\ cwdBefore' = cwd
    /\ pid' = 0
    /\ status' = 0
    /\ reaped' = NoTerm
    /\ trace' = <<>>
    /\ UNCHANGED <<cwd, env, children, exitCode>>

\* The caller goes back to reading: the line buffer is free for the next
\* line and nothing of the last Command is left.
NextLine ==
    /\ pc = "cleaned"
    /\ pc' = "idle"
    /\ before' = NULLCMD
    /\ heap' = EmptyHeap
    /\ UNCHANGED <<line, cmd, calls, done, ret, found, cwdBefore, cwd, env, children,
                   pid, status, reaped, trace, exitCode>>

Next ==
    \/ CallParse
    \/ CallFindFullPath
    \/ ExecuteValidate
    \/ ExecuteBuiltin
    \/ ExecuteNotBuiltin
    \/ ExecuteResolve
    \/ ExecuteFork
    \/ \E p \in Pids : ChildExec(p)
    \/ \E p \in Pids : ChildTerminate(p)
    \/ ExecuteWait
    \/ CallCleanup
    \/ NextLine

Spec == Init /\ [][Next]_vars

\* A caller that builds its first Command by hand, as a test does:
\* create_command(1) and a name copied into argv[0].
InitBuilt ==
    /\ pc = "ready"
    /\ line = NULL
    /\ \E name \in Names :
        /\ cmd = [create_command(1) EXCEPT !.argv[1] = name]
        /\ heap = ApplyMem(EmptyHeap,
                     <<New(<<"cmd", 0>>, 1), New(<<"argv", 0>>, 2),
                       New(<<"arg", 0>>, MAX_ARG_LEN),
                       Write(<<"argv", 0>>, <<NUL, NUL>>),
                       Write(<<"arg", 0>>, name \o <<NUL>>)>>)
    /\ calls = 0
    /\ done = "none"
    /\ ret = SUCCESS
    /\ found = FALSE
    /\ before = NULLCMD
    /\ cwdBefore = <<"/">>
    /\ cwd = <<"/">>
    /\ env = [PATH |-> <<"/", "a", ":", "/", "b">>, HOME |-> <<"/", "h">>,
              sigchld |-> "default"]
    /\ children = [p \in Pids |-> NoChild]
    /\ pid = 0
    /\ status = 0
    /\ reaped = NoTerm
    /\ trace = <<>>
    /\ exitCode = <<>>

SpecBuilt == InitBuilt /\ [][Next]_vars

\* The steps of a running execute call and of the child it waits for. The
\* shell process keeps running and a spawned child terminates in the end.
ExecStep ==
    \/ ExecuteBuiltin
    \/ ExecuteNotBuiltin
    \/ ExecuteResolve
    \/ ExecuteFork
    \/ \E p \in Pids : ChildExec(p)
    \/ \E p \in Pids : ChildTerminate(p)
    \/ ExecuteWait

\* A shell session over one line of each kind of outcome: a blank line, cd
\* that succeeds and cd that fails, exit, a program that is found, with and
\* without an argument, one that cannot be executed and one that is not found.
FairLines ==
    { <<"\n">>,
      tCd,
      tCd \o SP \o <<"z">>,
      tExit,
      <<"p">>,
      SP \o <<"p">> \o SP \o <<"a", "\n">>,
      <<"q">>,
      <<"n">> }

CallParseFair == ParseStep(FairLines)

InitFair ==
    /\ Init
    /\ env \in [PATH : { NULL, <<"/", "a", ":", "/", "b">> },
                HOME : { <<"/", "h">> },
                sigchld : SigchldDispositions]

NextFair ==
    \/ CallParseFair
    \/ CallFindFullPath
    \/ ExecuteValidate
    \/ CallCleanup
    \/ NextLine
    \/ ExecStep

FairSpec == InitFair /\ [][NextFair]_vars /\ WF_vars(ExecStep)

\* A caller that only parses lines and releases the result, for every line
\* put together from at most MaxPieces pieces.
CallParseAny == ParseStep(AnyLines)

InitParse ==
    /\ Init
    /\ env = [PATH |-> <<"/", "a", ":", "/", "b">>, HOME |-> <<"/", "h">>,
              sigchld |-> "default"]

NextParse ==
    \/ CallParseAny
    \/ CallCleanup
    \/ NextLine

ParseSpec == InitParse /\ [][NextParse]_vars

---------------------------------------------------------------------------
(* Vocabulary of the properties *)

Ops(tr) == { tr[i].op : i \in 1..Len(tr) }

Alive == { p \in Pids : children[p].st \in {"forked", "running", "shell"} }

InExecute == pc \in {"classify", "resolve", "fork", "wait"}

Returned == pc = "ready" /\ done = "execute"

Present(c) == c # NULLCMD /\ c.argc >= 1

IsBlank(l) == l # NULL /\ \A i \in 1..Len(l) : l[i] \in {" ", "\t", "\n"}

NormalExitZero(term) == term.kind = "exited" /\ term.n % 256 = 0

SpawnOps == {"fork", "waitpid", "perror: fork failed", "perror: waitpid failed"}

ResolverOps == {"find_full_path", "stat", "perror: getenv failed"}

\* The directories of PATH in their listed order, and those among them that
\* hold a regular file named a0.
PathDirs == IF env.PATH = NULL THEN <<>> ELSE Tokens(env.PATH, {":"})

Matches(a0, wd) ==
    { i \in 1..Len(PathDirs) :
        Lookup(PathDirs[i] \o <<"/">> \o a0, wd) \in RegularFiles }

---------------------------------------------------------------------------
(* Properties *)

\* C1: when the child was spawned and waited for, execute returns SUCCESS
\* exactly when the child ended by a normal exit with code 0, and ERROR for
\* every other way it ended; only these two values are returned, never the
\* child's code or signal number.
C1_ExitStatusDecidesResult ==
    (Returned /\ reaped # NoTerm) =>
        /\ ret = SUCCESS <=> NormalExitZero(reaped)
        /\ ret # SUCCESS => ret = ERROR
        /\ SUCCESS # ERROR

C1_Witness ==
    /\ Returned
    /\ reaped = [kind |-> "exited", n |-> 2]
    /\ ret = ERROR

\* C2: every execute that returns, returns SUCCESS or ERROR; cd with exactly
\* one extra argument returns SUCCESS when the directory change succeeds (the
\* working directory is then the argument) and ERROR when it fails (the
\* working directory is then unchanged).
C2_ReturnsSuccessOrError ==
    Returned =>
        /\ ret \in {SUCCESS, ERROR}
        /\ (before # NULLCMD /\ before.argc = 2 /\ before.argv[1] = tCd) =>
              IF Lookup(before.argv[2], cwdBefore) \in Directories
              THEN ret = SUCCESS /\ cwd = Lookup(before.argv[2], cwdBefore)
              ELSE ret = ERROR /\ cwd = cwdBefore

C2_Witness ==
    /\ Returned
    /\ before # NULLCMD
    /\ before.argc = 2
    /\ before.argv[1] = tCd
    /\ ret = ERROR

\* C3: a blank line parses to a Command with no argument, and execute of
\* that Command or of an absent Command returns ERROR from the validity
\* check: no classification, no path resolution, no message, no process.
C3_BlankLineFailsValidation ==
    /\ (pc # "idle" /\ pc # "exited" /\ IsBlank(line)) =>
          cmd.argc = 0 /\ cmd.argv = <<NULL>>
    /\ InExecute => Present(cmd)
    /\ (Returned /\ ~Present(before)) =>
          /\ ret = ERROR
          /\ trace = <<>>
          /\ Alive = {}
          /\ cmd = before

C3_Witness ==
    /\ Returned
    /\ line = <<" ", "\t", "\n">>
    /\ before.argc = 0
    /\ ret = ERROR

\* C4: while and after execute runs a Command whose argument 0 is cd or
\* exit, no child is spawned and the path resolver is not called, and the
\* value returned is the one do_builtin reports.
C4_BuiltinNeverSpawns ==
    ((InExecute \/ Returned \/ pc = "exited")
        /\ Present(before) /\ before.argv[1] \in {tCd, tExit}) =>
        /\ pc \notin {"resolve", "fork", "wait"}
        /\ Ops(trace) \cap (SpawnOps \cup ResolverOps) = {}
        /\ Alive = {}
        /\ cmd = before
        /\ Returned =>
              /\ ret = do_builtin(before, env.HOME, cwdBefore).rv
              /\ "is_builtin" \in Ops(trace)

C4_Witness ==
    /\ Returned
    /\ before # NULLCMD
    /\ before.argc = 1
    /\ before.argv[1] = tCd
    /\ ret = SUCCESS

\* C5: when some directory of PATH holds a regular file named argument 0,
\* find_full_path succeeds, argument 0 becomes d/argv0 for the first such
\* directory d in the listed order, and exactly the directories up to d
\* were examined.
C5_FirstMatchInListedOrder ==
    (pc = "ready" /\ done = "find_full_path" /\ Present(before)
        /\ Matches(before.argv[1], cwdBefore) # {}) =>
        LET first == Min(Matches(before.argv[1], cwdBefore))
        IN  /\ found
            /\ cmd.argv[1] = PathDirs[first] \o <<"/">> \o before.argv[1]
            /\ Len(trace) = first

\* C6: when PATH is unset or no directory of PATH holds a regular file named
\* argument 0, find_full_path returns false and the Command is as before.
C6_MissLeavesCommandUnchanged ==
    (pc = "ready" /\ done = "find_full_path" /\ Present(before)
        /\ Matches(before.argv[1], cwdBefore) = {}) =>
        /\ ~found
        /\ cmd = before

\* C7: when resolution fails for a Command that is not a builtin, execute
\* prints the not-found message with argument 0 as execute received it (the
\* token parse stored, when execute is the first call on the Command),
\* returns ERROR, and neither spawns nor waits.
C7_NotFoundNamesToken ==
    (Returned /\ Present(before) /\ before.argv[1] \notin {tCd, tExit}
        /\ ~found) =>
        /\ trace[Len(trace)] = Ev("printf: Command %s not found!", before.argv[1])
        /\ calls = 1 => before.argv[1] = parse(line).argv[1]
        /\ ret = ERROR
        /\ Ops(trace) \cap SpawnOps = {}
        /\ Alive = {}

C7_Witness ==
    /\ Returned
    /\ calls = 1
    /\ line = <<"n">>
    /\ ~found
    /\ ret = ERROR

\* C8: a child whose execv fails ends at once by a normal exit with a
\* nonzero code and never goes on as a copy of the shell; the parent that
\* collects it returns ERROR.
C8_ExecFailureEndsChild ==
    [][ /\ \A p \in Pids :
            (children[p].st = "forked" /\ children'[p] # children[p]) =>
                \/ children'[p].st = "running"
                \/ /\ children'[p].st = "zombie"
                   /\ children'[p].term.kind = "exited"
                   /\ children'[p].term.n % 256 # 0
                \/ /\ env.sigchld = "ignore"
                   /\ children'[p] = NoChild
        /\ \A p \in Pids : children'[p].st # "shell"
        /\ (pc = "wait" /\ pc' # "wait" /\ ~children[pid].ran) =>
              /\ pc' = "ready"
              /\ done' = "execute"
              /\ ret' = ERROR
      ]_vars

C8_Witness ==
    /\ Returned
    /\ reaped = [kind |-> "exited", n |-> EXIT_FAILURE]
    /\ ret = ERROR
    /\ "waitpid" \in Ops(trace)

\* C9: one execute forks at most once, the parent is outside execute's wait
\* only when no child is alive, a result read from an exit status is that of
\* a child already collected, and at most one child is alive at any time.
C9_OneChildAtATime ==
    /\ Cardinality(Alive) <= 1
    /\ Cardinality({ i \in 1..Len(trace) : trace[i].op = "fork" }) <= 1
    /\ pc # "wait" => Alive = {}
    /\ (Returned /\ reaped # NoTerm) =>
          /\ children[pid] = NoChild
          /\ status = EncodeStatus(reaped)

C9_Witness ==
    /\ Returned
    /\ reaped # NoTerm
    /\ "fork" \in Ops(trace)
    /\ cwd # <<"/">>

\* C10: cd with more than one extra argument returns ERROR, writes the
\* too-many-arguments message to the error stream, calls no chdir and
\* leaves the working directory as it was.
C10_CdTooManyArguments ==
    (Returned /\ before # NULLCMD /\ before.argc >= 3 /\ before.argv[1] = tCd) =>
        /\ ret = ERROR
        /\ "fprintf stderr: cd: Too many arguments" \in Ops(trace)
        /\ "chdir" \notin Ops(trace)
        /\ cwd = cwdBefore

C10_Witness ==
    /\ Returned
    /\ before # NULLCMD
    /\ before.argc = 4
    /\ before.argv[1] = tCd
    /\ ret = ERROR

\* The blocks a Command owns, and whether a block is allocated and not
\* released.
CommandBlocks(c) ==
    { <<"cmd", 0>>, <<"argv", 0>> } \cup { <<"arg", i>> : i \in 0..(c.argc - 1) }

Live(what) ==
    /\ Latest(heap.blocks, what) # 0
    /\ heap.blocks[Latest(heap.blocks, what)].st = "live"

\* C11: a Command whose argument 0 is exit, with or without extra
\* arguments, ends the shell process with status SUCCESS inside do_builtin:
\* execute does not return, nothing runs afterwards, no resolver call and no
\* child, and the Command is still allocated.
C11_ExitTerminatesShell ==
    /\ pc = "exited" =>
          /\ exitCode = <<SUCCESS>>
          /\ Present(before)
          /\ before.argv[1] = tExit
          /\ cmd = before
          /\ done = "none"
          /\ ~ENABLED Next
          /\ Alive = {}
          /\ Ops(trace) = {"is_builtin", "exit"}
          /\ \A w \in CommandBlocks(cmd) : Live(w)
    /\ pc # "exited" => exitCode = <<>>
    /\ (InExecute /\ before.argv[1] = tExit) => pc = "classify"
    /\ (Returned /\ Present(before)) => before.argv[1] # tExit

C11_Witness ==
    /\ pc = "exited"
    /\ before.argc = 2
    /\ exitCode = <<SUCCESS>>

\* C12: with PATH unset, execute of a Command that is not a builtin returns
\* ERROR and spawns nothing; with HOME unset, cd without arguments hands the
\* null path to chdir, returns ERROR and leaves the working directory; the
\* shell process ends in neither case.
C12_UnsetVariableIsAnError ==
    (Present(before) /\ (InExecute \/ Returned \/ pc = "exited")) =>
        /\ (env.PATH = NULL /\ before.argv[1] \notin {tCd, tExit}) =>
              /\ pc \notin {"fork", "wait", "exited"}
              /\ Alive = {}
              /\ cmd = before
              /\ Returned =>
                    /\ ret = ERROR
                    /\ Ops(trace) \cap SpawnOps = {}
                    /\ "perror: getenv failed" \in Ops(trace)
        /\ (env.HOME = NULL /\ before.argv[1] = tCd /\ before.argc = 1) =>
              /\ pc # "exited"
              /\ cwd = cwdBefore
              /\ Returned =>
                    /\ ret = ERROR
                    /\ trace[Len(trace)] = Ev("chdir", NULL)

C12_Witness ==
    /\ Returned
    /\ env.HOME = NULL
    /\ env.PATH = NULL
    /\ Present(before)
    /\ before.argv[1] = tCd
    /\ before.argc = 1
    /\ cwd = <<"/", "a">>
    /\ ret = ERROR

Whitespace == { " ", "\t", "\n" }

RunStarts(l) ==
    { i \in 1..Len(l) : l[i] \notin Whitespace /\ (i = 1 \/ l[i - 1] \in Whitespace) }

RunEnd(l, i) ==
    CHOOSE j \in i..Len(l) :
        /\ \A k \in i..j : l[k] \notin Whitespace
        /\ j = Len(l) \/ l[j + 1] \in Whitespace

NthRunStart(l, n) ==
    CHOOSE i \in RunStarts(l) : Cardinality({ j \in RunStarts(l) : j < i }) = n - 1

Run(l, n) == SubSeq(l, NthRunStart(l, n), RunEnd(l, NthRunStart(l, n)))

NumRuns(l) == Cardinality(RunStarts(l))

Parsed == pc = "ready" /\ done = "parse" /\ line # NULL

\* C14 as stated: argument i holds the whole i-th run.
C14_ArgumentIsWholeRun ==
    Parsed =>
        /\ cmd # NULLCMD
        /\ cmd.argc = NumRuns(line)
        /\ \A n \in 1..NumRuns(line) : cmd.argv[n] = Run(line, n)

\* C14: parse counts the maximal runs of non-whitespace characters of the
\* line, and argument i holds the i-th run from the left cut to its first
\* MAX_ARG_LEN - 1 characters; no argument is empty, none is extra, and
\* every slot is filled.
C14_ArgumentsAreTheRuns ==
    Parsed =>
        /\ cmd # NULLCMD
        /\ cmd.argc = NumRuns(line)
        /\ Len(cmd.argv) = NumRuns(line) + 1
        /\ \A n \in 1..NumRuns(line) :
            /\ cmd.argv[n] = Take(Run(line, n), MAX_ARG_LEN - 1)
            /\ cmd.argv[n] \notin { <<>>, UNINIT, NULL }

C14_Witness ==
    /\ Parsed
    /\ \E i \in 1..(Len(line) - 1) : line[i] = "\t" /\ line[i + 1] = " "
    /\ cmd.argc = 2
    /\ Len(Run(line, 2)) >= MAX_ARG_LEN
    /\ Len(cmd.argv[2]) = MAX_ARG_LEN - 1

Block(what) == heap.blocks[Latest(heap.blocks, what)]

\* C15: the slot of argument i has MAX_ARG_LEN cells; after parse it holds
\* the first MAX_ARG_LEN - 1 characters of a longer run, or the whole of a
\* shorter one, followed by a terminator inside the slot, and parse writes
\* nothing past the end of a slot.
C15_TruncationStaysInSlot ==
    /\ "write past the end of a block" \notin heap.err
    /\ Parsed =>
        \A n \in 1..NumRuns(line) :
            LET run == Run(line, n)
                slot == Block(<<"arg", n - 1>>)
            IN  /\ Live(<<"arg", n - 1>>)
                /\ slot.cap = MAX_ARG_LEN
                /\ Len(slot.data) <= slot.cap
                /\ \E k \in 1..Len(slot.data) : slot.data[k] = NUL
                /\ CStr(slot.data) =
                      (IF Len(run) > MAX_ARG_LEN - 1
                       THEN SubSeq(run, 1, MAX_ARG_LEN - 1)
                       ELSE run)
                /\ cmd.argv[n] = CStr(slot.data)

C15_Witness ==
    /\ Parsed
    /\ NumRuns(line) = 2
    /\ Len(Run(line, 1)) = 2 * MAX_ARG_LEN
    /\ Block(<<"arg", 0>>).data = SubSeq(Run(line, 1), 1, MAX_ARG_LEN - 1) \o <<NUL>>
    /\ Len(Run(line, 2)) = 1
    /\ CStr(Block(<<"arg", 1>>).data) = Run(line, 2)

LiveBlocks == { i \in 1..Len(heap.blocks) : heap.blocks[i].st = "live" }

BlocksNamed(what) == { i \in 1..Len(heap.blocks) : heap.blocks[i].what = what }

\* C16: no block is released twice or used after its release; whenever a
\* call has returned, the only blocks allocated are those of the Command
\* (one per argument, the argument list, the struct), so the copies of the
\* line and of the search path and a replaced argument 0 are already
\* released; after cleanup nothing is allocated, and cleanup of an absent
\* Command releases nothing.
C16_EveryAllocationReleasedOnce ==
    /\ heap.err = {}
    /\ (pc # "cleaned" /\ cmd # NULLCMD) =>
          /\ \A w \in CommandBlocks(cmd) : Live(w)
          /\ Cardinality(LiveBlocks) = cmd.argc + 2
    /\ (pc # "cleaned" /\ cmd = NULLCMD) => LiveBlocks = {}
    /\ pc = "cleaned" =>
          /\ LiveBlocks = {}
          /\ before = NULLCMD =>
                \A i \in 1..Len(heap.blocks) : heap.blocks[i].st = "caller"
          /\ before # NULLCMD =>
                \A w \in CommandBlocks(before) : BlocksNamed(w) # {}

C16_Witness ==
    /\ pc = "cleaned"
    /\ before.argc = 2
    /\ Cardinality(BlocksNamed(<<"arg", 0>>)) = 2
    /\ Cardinality(BlocksNamed(<<"path_copy", 0>>)) = 2
    /\ BlocksNamed(<<"line_copy", 0>>) # {}
    /\ LiveBlocks = {}
    /\ heap.err = {}

\* C17: when parse has returned, the caller's line buffer holds what it held
\* when parse was called; the buffer the tokenization cut into pieces is a
\* separate block of the line's size.
C17_LineIsNotModified ==
    Parsed =>
        /\ BlocksNamed(<<"line", 0>>) # {}
        /\ Block(<<"line", 0>>).st = "caller"
        /\ Block(<<"line", 0>>).data = line \o <<NUL>>
        /\ BlocksNamed(<<"line_copy", 0>>) # {}
        /\ Block(<<"line_copy", 0>>).cap = Len(line) + 1

C17_Witness ==
    /\ Parsed
    /\ cmd.argc = 2
    /\ Block(<<"line", 0>>).data = line \o <<NUL>>
    /\ Block(<<"line_copy", 0>>).data # line \o <<NUL>>
    /\ Block(<<"line_copy", 0>>).data = StrtokBuf(line, Whitespace)

AfterParse == pc = "ready" /\ done = "parse"

\* C18 as stated: a present Command from parse has at least one argument.
C18_ParsedArgcAtLeastOne ==
    (AfterParse /\ cmd # NULLCMD) => cmd.argc >= 1

\* C18: parse returns an absent Command only for an absent line; for a line
\* with at least one non-whitespace character the Command has one argument
\* or more; for an empty line or one of delimiters only the Command is
\* present with argument count zero and the end sentinel in slot 0.
C18_ArgcAtLeastOneUnlessBlank ==
    AfterParse =>
        /\ cmd = NULLCMD <=> line = NULL
        /\ (line # NULL /\ ~IsBlank(line)) => cmd.argc >= 1
        /\ (line # NULL /\ IsBlank(line)) => (cmd.argc = 0 /\ cmd.argv = <<NULL>>)

C18_Witness ==
    /\ AfterParse
    /\ line # NULL
    /\ Len(line) >= 2
    /\ IsBlank(line)
    /\ cmd = [argc |-> 0, argv |-> <<NULL>>]

Held == cmd # NULLCMD /\ pc \in {"ready", "classify", "resolve", "fork", "wait", "exited"}

\* C19: from the return of parse to the call of cleanup, whatever
\* find_full_path and execute calls were made, the Command has argc + 1
\* slots, the last of them NULL, each of the others a terminated string in
\* an allocated block; argc is the number of runs of the line, arguments 1
\* and up are as parse stored them, and argument 0 is as parse stored it or
\* the path of a regular file a successful find_full_path put there.
C19_CommandStaysWellFormed ==
    Held =>
        /\ line # NULL
        /\ cmd.argc = NumRuns(line)
        /\ Len(cmd.argv) = cmd.argc + 1
        /\ cmd.argv[cmd.argc + 1] = NULL
        /\ Live(<<"cmd", 0>>)
        /\ Live(<<"argv", 0>>)
        /\ Block(<<"argv", 0>>).cap = cmd.argc + 1
        /\ \A n \in 1..cmd.argc :
            /\ cmd.argv[n] \notin {NULL, UNINIT}
            /\ Live(<<"arg", n - 1>>)
            /\ Len(Block(<<"arg", n - 1>>).data) <= Block(<<"arg", n - 1>>).cap
            /\ \E k \in 1..Len(Block(<<"arg", n - 1>>).data) :
                  Block(<<"arg", n - 1>>).data[k] = NUL
            /\ CStr(Block(<<"arg", n - 1>>).data) = cmd.argv[n]
        /\ \A n \in 2..cmd.argc : cmd.argv[n] = Take(Run(line, n), MAX_ARG_LEN - 1)
        /\ cmd.argc >= 1 =>
              \/ cmd.argv[1] = Take(Run(line, 1), MAX_ARG_LEN - 1)
              \/ /\ "find_full_path" \in Ops(trace) \/ calls >= 1
                 /\ Lookup(cmd.argv[1], cwd) \in RegularFiles

C19_Witness ==
    /\ Held
    /\ pc = "wait"
    /\ cmd.argc = 2
    /\ cmd.argv[1] # Take(Run(line, 1), MAX_ARG_LEN - 1)
    /\ cmd.argv = << <<"/", "a", "/", "p">>, <<"a">>, NULL >>

\* C20: the shell process ends only in the exit builtin, and every execute
\* call on a Command whose argument 0 is not exit returns to its caller,
\* whatever the outcome of the resolution, of fork, of waitpid and of chdir,
\* given that the shell keeps running and a spawned child terminates.
C20_OnlyExitEndsTheShell ==
    /\ [](pc = "exited" => (Present(before) /\ before.argv[1] = tExit))
    /\ (InExecute /\ before.argv[1] # tExit) ~> Returned

C20_Witness ==
    /\ Returned
    /\ Present(before)
    /\ before.argv[1] \notin {tCd, tExit}
    /\ ret = ERROR
    /\ "perror: waitpid failed" \in Ops(trace)
    /\ Alive = {}

====
